---- MODULE Spec2Model ----
(***************************************************************************)
(* Calendar events of the backend: the create-event, update-event,         *)
(* delete-event and batch handlers over the calendar_events table, with    *)
(* the recurrence expansion done by create-event.                          *)
(*                                                                         *)
(* Time.  The table stores TIMESTAMPTZ values (microsecond resolution).    *)
(* A JavaScript Date holds whole milliseconds, so `new Date(string)` drops *)
(* what is below the millisecond and toISOString() writes a value on the   *)
(* millisecond grid.  The model keeps the two resolutions and scales them  *)
(* down: a store timestamp is a number of ticks since 1970-01-01T00:00Z,   *)
(* a Date holds whole "date units" of SubTicks ticks each, and one date    *)
(* unit is drawn as one minute of the calendar, so that a day has          *)
(* 24 * 60 date units.  The handlers run with the local time zone UTC (the *)
(* serverless runtime's zone), so getDate/setDate/getMonth/setMonth are    *)
(* the UTC calendar.                                                       *)
(*                                                                         *)
(* Fields of an event that no handler reads (title, description, color,    *)
(* notes, category, created_at, updated_at) are copied verbatim by the     *)
(* code and are left out of the rows.                                      *)
(***************************************************************************)
EXTENDS Integers, Sequences, FiniteSets, TLC

\* ------------------------------------------------------------------ bounds
\* ticks of the store per unit of a Date (stands for 1000 us per ms)
SubTicks == 2

\* ------------------------------------------------------ the Date calendar
UnitsPerDay == 24 * 60

\* proleptic Gregorian calendar, day 0 = 1970-01-01 (month m in 1..12)
DaysFromCivil(y, m, d) ==
  LET yy  == IF m <= 2 THEN y - 1 ELSE y
      era == yy \div 400
      yoe == yy - era * 400
      mp  == IF m > 2 THEN m - 3 ELSE m + 9
      doy == (153 * mp + 2) \div 5 + d - 1
      doe == yoe * 365 + yoe \div 4 - yoe \div 100 + doy
  IN  era * 146097 + doe - 719468

\* <<year, month (1..12), day of month>> of a day number
CivilFromDays(z) ==
  LET zz  == z + 719468
      era == zz \div 146097
      doe == zz - era * 146097
      yoe == (doe - doe \div 1460 + doe \div 36524 - doe \div 146096) \div 365
      doy == doe - (365 * yoe + yoe \div 4 - yoe \div 100)
      mp  == (5 * doy + 2) \div 153
      d   == doy - (153 * mp + 2) \div 5 + 1
      m   == IF mp < 10 THEN mp + 3 ELSE mp - 9
      y   == yoe + era * 400 + (IF m <= 2 THEN 1 ELSE 0)
  IN  <<y, m, d>>

\* Date.prototype getters; the time value t counts date units
Day(t)           == t \div UnitsPerDay
TimeWithinDay(t) == t % UnitsPerDay
getFullYear(t)   == CivilFromDays(Day(t))[1]
\* months are 0..11 in a Date
getMonth(t)      == CivilFromDays(Day(t))[2] - 1
getDate(t)       == CivilFromDays(Day(t))[3]

\* MakeDay of the Date object: the day number of (year, month, date), where
\* month may exceed 11 and date may exceed the length of the month
MakeDay(year, month, date) ==
  LET ym == year + month \div 12
      mn == month % 12
  IN  DaysFromCivil(ym, mn + 1, 1) + date - 1

\* newStartDate.setDate(dt): same year, month and time of day, day dt
setDate(t, dt) ==
  MakeDay(getFullYear(t), getMonth(t), dt) * UnitsPerDay + TimeWithinDay(t)

\* newStartDate.setMonth(mo): same year, day of month and time, month mo
setMonth(t, mo) ==
  MakeDay(getFullYear(t), mo, getDate(t)) * UnitsPerDay + TimeWithinDay(t)

\* new Date(timestamp string): the fraction below a date unit is dropped
NewDate(ts) == ts \div SubTicks

\* toISOString() as the store reads it back: a timestamp on the Date grid
toISOString(t) == t * SubTicks

\* the timestamp of a calendar date and time of day, plus sub ticks
Timestamp(y, m, d, hh, mi, sub) ==
  ((DaysFromCivil(y, m, d) * UnitsPerDay) + hh * 60 + mi) * SubTicks + sub

\* ------------------------------------------------------------ the table
\* parent_event_id of a row that has no parent
NULL == 0

Recurrences == {"none", "daily", "weekly", "monthly"}

VARIABLES
  calendar_events,   \* the rows of the table
  nextId,            \* the next id gen_random_uuid() hands out
  resp,              \* the response of the last request, with its locals
  nreq,              \* number of requests handled so far
  handlers           \* the requests that run concurrently: the position and
                     \* the locals of the handler of each, in order of arrival

vars == <<calendar_events, nextId, resp, nreq, handlers>>

Ids(table) == {r.id : r \in table}
Row(table, id) == CHOOSE r \in table : r.id = id

\* mutant: the table without CONSTRAINT end_after_start
end_after_start_dropped(r) == TRUE

\* CONSTRAINT end_after_start and the CHECK on recurrence
end_after_start(r) == r.end_time > r.start_time
RowAllowed(r) == end_after_start(r) /\ r.recurrence \in Recurrences

\* mutant: parent_event_id without ON DELETE CASCADE taking the children along
Cascade_none(table, ids) == ids

\* rows removed with the rows `ids`: parent_event_id ... ON DELETE CASCADE
RECURSIVE Cascade(_, _)
Cascade(table, ids) ==
  LET more == {r.id : r \in {x \in table : x.parent_event_id \in ids}}
  IN  IF more \subseteq ids THEN ids ELSE Cascade(table, ids \cup more)

DeleteRows(table, ids) == {r \in table : r.id \notin Cascade(table, ids)}

\* mutant: a table that refuses a row overlapping another row of its owner
writeFails_exclusive(table, row, faulty) ==
  \/ faulty
  \/ ~RowAllowed(row)
  \/ \E x \in table : /\ x.id # row.id
                       /\ x.user_id = row.user_id
                       /\ x.start_time < row.end_time
                       /\ x.end_time > row.start_time

\* the insert or update of one row returns an error: the store call fails
\* (faulty) or the row breaks a constraint of the table
writeFails(table, row, faulty) ==
  \/ faulty
  \/ ~RowAllowed(row)

\* ------------------------------------------------------------ create-event
\* .refine() of CreateEventSchema: the two strings compared as Dates
CreateEventSchema(body) ==
  /\ body.recurrence \in Recurrences
  /\ NewDate(body.end_time) > NewDate(body.start_time)

\* mutant: the occurrences counted without the base event
maxOccurrences_plus_one(recurrence) ==
  IF recurrence = "daily" THEN 31 ELSE IF recurrence = "weekly" THEN 53 ELSE 13

\* recurrence === "daily" ? 30 : recurrence === "weekly" ? 52 : 12
maxOccurrences(recurrence) ==
  IF recurrence = "daily" THEN 30 ELSE IF recurrence = "weekly" THEN 52 ELSE 12

\* mutant: the weekly step counted from the day after the base event
newStartDate_weekly_off(startDate, recurrence, i) ==
  CASE recurrence = "daily"   -> setDate(startDate, getDate(startDate) + i)
    [] recurrence = "weekly"  -> setDate(startDate, getDate(startDate) + i * 7 + 1)
    [] recurrence = "monthly" -> setMonth(startDate, getMonth(startDate) + i)
    [] OTHER                  -> startDate

\* the switch of the loop body: the start of occurrence i
newStartDate(startDate, recurrence, i) ==
  CASE recurrence = "daily"   -> setDate(startDate, getDate(startDate) + i)
    [] recurrence = "weekly"  -> setDate(startDate, getDate(startDate) + i * 7)
    [] recurrence = "monthly" -> setMonth(startDate, getMonth(startDate) + i)
    [] OTHER                  -> startDate

\* mutant: the instances inherit the recurrence of the base event
generateRecurringEvents_inherits(baseEvent, recurrence, userId) ==
  [i \in 1..(maxOccurrences(recurrence) - 1) |->
    LET newStart == newStartDate(NewDate(baseEvent.start_time), recurrence, i)
        newEnd   == newStart + NewDate(baseEvent.end_time)
                             - NewDate(baseEvent.start_time)
    IN  [start_time      |-> toISOString(newStart),
         end_time        |-> toISOString(newEnd),
         recurrence      |-> recurrence,
         user_id         |-> userId,
         parent_event_id |-> baseEvent.id]]

\* the loop of generateRecurringEvents: the objects handed to the batch insert
generateRecurringEvents(baseEvent, recurrence, userId) ==
  LET startDate     == NewDate(baseEvent.start_time)
      endDate       == NewDate(baseEvent.end_time)
      eventDuration == endDate - startDate
  IN  [i \in 1..(maxOccurrences(recurrence) - 1) |->
        LET newStart == newStartDate(startDate, recurrence, i)
            newEnd   == newStart + eventDuration
        IN  [start_time      |-> toISOString(newStart),
             end_time        |-> toISOString(newEnd),
             recurrence      |-> "none",
             user_id         |-> userId,
             parent_event_id |-> baseEvent.id]]

\* mutant: the expander called whatever the recurrence
recurringEvents_unguarded(newEvent, recurrence, userId) ==
  [i \in 1..(maxOccurrences(recurrence) - 1) |->
    LET newStart == newStartDate(NewDate(newEvent.start_time), recurrence, i)
        newEnd   == newStart + NewDate(newEvent.end_time)
                             - NewDate(newEvent.start_time)
    IN  [start_time      |-> toISOString(newStart),
         end_time        |-> toISOString(newEnd),
         recurrence      |-> "none",
         user_id         |-> userId,
         parent_event_id |-> newEvent.id]]

\* "Generate recurring events if needed" of the create handler
recurringEventsIfNeeded(newEvent, recurrence, userId) ==
  IF recurrence # "none"
    THEN generateRecurringEvents(newEvent, recurrence, userId)
    ELSE <<>>

\* the rows of a batch insert without ids: ids in order from `first`
WithIds(objs, first) ==
  [i \in 1..Len(objs) |->
     [id              |-> first + i - 1,
      user_id         |-> objs[i].user_id,
      start_time      |-> objs[i].start_time,
      end_time        |-> objs[i].end_time,
      recurrence      |-> objs[i].recurrence,
      parent_event_id |-> objs[i].parent_event_id]]

Range(seq) == {seq[i] : i \in 1..Len(seq)}

\* the fields of a response; a handler fills in what it returns.  conflicts
\* is what the response reports under "conflicts" (empty for null),  generated
\* is the length of the list built by generateRecurringEvents, count the
\* number the response reports, warn the store errors that were only logged,
\* fault the store call whose error ended the request, req the validated
\* request body (validation.data) and raw the body as it was sent
NoResp ==
  [op |-> "none", status |-> 0, user |-> "", id |-> NULL, parent |-> NULL,
   flag |-> FALSE, recurrence |-> "none", conflicts |-> {}, recurring |-> <<>>,
   generated |-> 0, count |-> 0, warn |-> {}, fault |-> "none",
   req |-> <<>>, raw |-> <<>>, results |-> <<>>]

Users == {"u1", "u2"}
\* a request without a valid bearer token
NoUser == "anonymous"

\* the select of the "Check for conflicts" step of create-event: the rows of
\* the caller whose start_time lies in [start_time, end_time] of the body.
\* .neq("id", "") excludes no row of a store that compares the text; a store
\* that casts "" to the uuid of the id column fails the statement, which is
\* the fault "conflict" of CreateEvent
createConflictQuery(table, userId, eventData) ==
  {r.id : r \in {x \in table : /\ x.user_id = userId
                               /\ x.start_time >= eventData.start_time
                               /\ x.start_time <= eventData.end_time}}

\* mutant: a batch insert that keeps its first row when the statement fails
batchInsert_partial(objs, first, fault) ==
  LET rows == WithIds(objs, first)
  IN  IF fault # "batch" /\ \A i \in 1..Len(objs) : RowAllowed(objs[i])
        THEN rows
        ELSE SubSeq(rows, 1, 1)

\* what the batch insert of generateRecurringEvents returns (data || [], or
\* [] on an error): one statement, all rows or none
batchInsert(objs, first, fault) ==
  LET rows == WithIds(objs, first)
  IN  IF fault # "batch" /\ \A i \in 1..Len(objs) : RowAllowed(objs[i])
        THEN rows
        ELSE <<>>

\* POST create-event.  body = [start_time, end_time, recurrence]; fault names
\* the store call that returns an error ("none": every call succeeds)
CreateEvent(user, body, fault) ==
  LET newEvent == [id              |-> nextId,
                   user_id         |-> user,
                   start_time      |-> body.start_time,
                   end_time        |-> body.end_time,
                   recurrence      |-> body.recurrence,
                   parent_event_id |-> NULL]
      existing == IF fault = "conflict"
                    THEN {}
                    ELSE createConflictQuery(calendar_events, user, body)
  IN
  /\ nreq' = nreq + 1
  /\ IF user = NoUser
       THEN /\ resp' = [NoResp EXCEPT !.op = "create", !.status = 401]
            /\ UNCHANGED <<calendar_events, nextId>>
     ELSE IF ~CreateEventSchema(body)
       THEN /\ resp' = [NoResp EXCEPT !.op = "create", !.status = 400,
                                      !.user = user, !.req = body]
            /\ UNCHANGED <<calendar_events, nextId>>
     ELSE IF writeFails(calendar_events, newEvent, fault = "insert")
       THEN /\ resp' = [NoResp EXCEPT !.op = "create", !.status = 500,
                                      !.user = user, !.req = body,
                                      !.fault = IF fault = "insert" THEN fault ELSE "none"]
            /\ UNCHANGED <<calendar_events, nextId>>
     ELSE \E objs \in {recurringEventsIfNeeded(newEvent, body.recurrence, user)} :
          \E inserted \in {batchInsert(objs, nextId + 1, fault)} :
          \E n \in {Len(inserted)} :
            /\ calendar_events' =
                 calendar_events \cup {newEvent} \cup Range(inserted)
            /\ nextId' = nextId + 1 + n
            /\ resp' = [NoResp EXCEPT !.op = "create", !.status = 201,
                          !.user = user, !.id = newEvent.id, !.req = body,
                          !.recurrence = body.recurrence,
                          !.conflicts = existing,
                          !.recurring = [i \in 1..n |-> inserted[i].id],
                          !.generated = Len(objs),
                          !.count = n,
                          !.warn = (IF fault = "conflict" THEN {"conflict"} ELSE {})
                                   \cup (IF n # Len(objs) THEN {"batch"} ELSE {})]

\* mutant: the fetch of the existing event without .eq("user_id", user.id)
fetchExisting_any_owner(table, eventId, userId) ==
  {r \in table : r.id = eventId}

\* "Check if event exists and belongs to user" of the update and delete
\* handlers: the row .single() returns, if there is one
fetchExisting(table, eventId, userId) ==
  {r \in table : r.id = eventId /\ r.user_id = userId}

\* ------------------------------------------------------------ update-event
\* an update body is a function from the fields it supplies to their values
Has(updateData, field) == field \in DOMAIN updateData

\* mutant: UpdateEventSchema with .passthrough(), the unknown keys kept
UpdateEventData_passthrough(body) == body

\* validation.data of UpdateEventSchema.safeParse(req.body): z.object strips
\* the keys the schema does not name (user_id, parent_event_id, id)
UpdateEventData(body) ==
  [f \in DOMAIN body \cap {"start_time", "end_time", "recurrence"} |-> body[f]]

\* .refine() of UpdateEventSchema: the times are compared when both are given
UpdateEventSchema(updateData) ==
  /\ Has(updateData, "recurrence") => updateData.recurrence \in Recurrences
  /\ (Has(updateData, "start_time") /\ Has(updateData, "end_time")) =>
       NewDate(updateData.end_time) > NewDate(updateData.start_time)

\* .update({...updateData}): the supplied columns replaced, the others kept
SetColumns(row, updateData) ==
  [f \in DOMAIN row |-> IF Has(updateData, f) THEN updateData[f] ELSE row[f]]

\* the select of "If changing times, validate against existing events"
updateConflictQuery(table, userId, eventId, startTime, endTime) ==
  {r.id : r \in {x \in table : /\ x.user_id = userId
                               /\ x.id # eventId
                               /\ x.start_time < endTime
                               /\ x.end_time > startTime}}

\* PUT update-event with the request body `body`.  The rows of
\* updateConflictQuery stay in a local of the handler: the response carries
\* the updated row and a message only
UpdateEvent(user, eventId, body, fault) ==
  LET updateData == UpdateEventData(body)
      found    == fetchExisting(calendar_events, eventId, user)
      existing == CHOOSE r \in found : TRUE
      changed  == SetColumns(existing, updateData)
      timed    == Has(updateData, "start_time") \/ Has(updateData, "end_time")
      base     == [NoResp EXCEPT !.op = "update", !.user = user, !.id = eventId,
                                 !.req = updateData, !.raw = body]
  IN
  /\ nreq' = nreq + 1
  /\ UNCHANGED nextId
  /\ IF user = NoUser
       THEN /\ resp' = [NoResp EXCEPT !.op = "update", !.status = 401]
            /\ UNCHANGED calendar_events
     ELSE IF eventId = NULL \/ ~UpdateEventSchema(body)
       THEN /\ resp' = [base EXCEPT !.status = 400]
            /\ UNCHANGED calendar_events
     ELSE IF fault = "fetch" \/ found = {}
       THEN /\ resp' = [base EXCEPT !.status = 404,
                          !.fault = IF fault = "fetch" THEN fault ELSE "none"]
            /\ UNCHANGED calendar_events
     ELSE IF writeFails(calendar_events, changed, fault = "update")
       THEN /\ resp' = [base EXCEPT !.status = 500,
                          !.parent = existing.parent_event_id,
                          !.fault = IF fault = "update" THEN fault ELSE "none",
                          !.warn = IF timed /\ fault = "conflict"
                                     THEN {"conflict"} ELSE {}]
            /\ UNCHANGED calendar_events
     ELSE /\ calendar_events' = (calendar_events \ {existing}) \cup {changed}
          /\ resp' = [base EXCEPT !.status = 200,
                        !.parent = existing.parent_event_id,
                        !.warn = IF timed /\ fault = "conflict"
                                   THEN {"conflict"} ELSE {}]

\* ------------------------------------------------------------ delete-event
\* mutant: the series filter names the instances and forgets the parent row
deleteTargets_instances_only(table, user, eventId, existing, deleteRecurring) ==
  IF deleteRecurring /\ existing.parent_event_id # NULL
    THEN {r \in table : /\ r.parent_event_id = existing.parent_event_id
                         /\ r.user_id = user}
    ELSE {r \in table : r.id = eventId /\ r.user_id = user}

\* the rows the delete statement of the handler names
deleteTargets(table, user, eventId, existing, deleteRecurring) ==
  IF deleteRecurring /\ existing.parent_event_id # NULL
    THEN {r \in table : /\ \/ r.id = existing.parent_event_id
                            \/ r.parent_event_id = existing.parent_event_id
                         /\ r.user_id = user}
    ELSE {r \in table : r.id = eventId /\ r.user_id = user}

\* DELETE delete-event
DeleteEvent(user, eventId, deleteRecurring, fault) ==
  LET found    == fetchExisting(calendar_events, eventId, user)
      existing == CHOOSE r \in found : TRUE
      targets  == deleteTargets(calendar_events, user, eventId, existing,
                                deleteRecurring)
      deletedCount == Cardinality(targets)
      base     == [NoResp EXCEPT !.op = "delete", !.user = user, !.id = eventId,
                                 !.flag = deleteRecurring]
  IN
  /\ nreq' = nreq + 1
  /\ UNCHANGED nextId
  /\ IF user = NoUser
       THEN /\ resp' = [NoResp EXCEPT !.op = "delete", !.status = 401]
            /\ UNCHANGED calendar_events
     ELSE IF eventId = NULL
       THEN /\ resp' = [base EXCEPT !.status = 400]
            /\ UNCHANGED calendar_events
     ELSE IF fault = "fetch" \/ found = {}
       THEN /\ resp' = [base EXCEPT !.status = 404,
                          !.fault = IF fault = "fetch" THEN fault ELSE "none"]
            /\ UNCHANGED calendar_events
     ELSE IF fault = "delete"
       THEN /\ resp' = [base EXCEPT !.status = 500, !.fault = fault,
                                    !.parent = existing.parent_event_id]
            /\ UNCHANGED calendar_events
     ELSE /\ calendar_events' = DeleteRows(calendar_events, Ids(targets))
          /\ resp' = [base EXCEPT
                        !.status = IF deletedCount = 0 THEN 404 ELSE 200,
                        !.parent = existing.parent_event_id,
                        !.count = deletedCount]

\* ------------------------------------------------------------------- batch
\* an event of a batch operation is [id, start_time, end_time, recurrence]
\* after EventSchema: id is NULL when absent, recurrence defaults to "none",
\* and keys outside the schema (user_id, parent_event_id) are stripped

\* gen_random_uuid() never returns an id in use: the supply of ids moves
\* past the ids the rows of a request brought themselves
NextFree(nid, rows) ==
  IF \E r \in rows : r.id >= nid
    THEN 1 + CHOOSE m \in Ids(rows) : \A r \in rows : r.id <= m
    ELSE nid

\* batchCreateEvents: one insert statement.  Returns [ok, table, nid, n]
batchCreateEvents(table, nid, events, userId, fault) ==
  LET fresh(i) == nid + Cardinality({j \in 1..(i - 1) : events[j].id = NULL})
      rows == [i \in 1..Len(events) |->
                [id              |-> IF events[i].id # NULL THEN events[i].id
                                                             ELSE fresh(i),
                 user_id         |-> userId,
                 start_time      |-> events[i].start_time,
                 end_time        |-> events[i].end_time,
                 recurrence      |-> events[i].recurrence,
                 parent_event_id |-> NULL]]
      ok   == /\ ~fault
              /\ \A i \in 1..Len(rows) : RowAllowed(rows[i])
              /\ \A i \in 1..Len(rows) : rows[i].id \notin Ids(table)
              /\ \A i, j \in 1..Len(rows) : rows[i].id = rows[j].id => i = j
  IN  IF ok
        THEN [ok |-> TRUE, table |-> table \cup Range(rows),
              nid |-> NextFree(nid + Cardinality({j \in 1..Len(events) :
                                                    events[j].id = NULL}),
                               Range(rows)),
              n |-> Len(rows)]
        ELSE [ok |-> FALSE, table |-> table, nid |-> nid, n |-> 0]

\* batchUpdateEvents: one update statement per event, in order, stopping at
\* the first error; the statements before it stay applied
RECURSIVE batchUpdateFrom(_, _, _, _, _)
batchUpdateFrom(table, events, k, userId, fault) ==
  IF k > Len(events)
    THEN [ok |-> TRUE, table |-> table, n |-> Len(events)]
    ELSE
      LET event   == events[k]
          found   == {r \in table : r.id = event.id /\ r.user_id = userId}
          row     == CHOOSE r \in found : TRUE
          changed == [row EXCEPT !.start_time = event.start_time,
                                 !.end_time = event.end_time,
                                 !.recurrence = event.recurrence]
      IN  IF \/ event.id = NULL
             \/ (fault /\ k = 1)
             \/ found = {}
             \/ ~RowAllowed(changed)
            THEN [ok |-> FALSE, table |-> table, n |-> 0]
            ELSE batchUpdateFrom((table \ {row}) \cup {changed}, events, k + 1,
                                 userId, fault)

batchUpdateEvents(table, events, userId, fault) ==
  batchUpdateFrom(table, events, 1, userId, fault)

\* batchDeleteEvents: one delete statement for the ids the events carry
batchDeleteEvents(table, events, userId, fault) ==
  LET eventIds == {events[i].id : i \in 1..Len(events)} \ {NULL}
      rows     == {r \in table : r.id \in eventIds /\ r.user_id = userId}
  IN  IF eventIds = {}
        THEN [ok |-> TRUE, table |-> table, n |-> 0]
      ELSE IF fault
        THEN [ok |-> FALSE, table |-> table, n |-> 0]
      ELSE [ok |-> TRUE, table |-> DeleteRows(table, Ids(rows)),
            n |-> Cardinality(rows)]

\* processBatchOperation and the loop body of the handler: the table, the
\* next id and the entry pushed on results
processBatchOperation(table, nid, operation, userId, fault) ==
  LET out == CASE operation.type = "create" ->
                    batchCreateEvents(table, nid, operation.events, userId, fault)
               [] operation.type = "update" ->
                    [nid |-> nid] @@
                    batchUpdateEvents(table, operation.events, userId, fault)
               [] operation.type = "delete" ->
                    [nid |-> nid] @@
                    batchDeleteEvents(table, operation.events, userId, fault)
  IN  [table  |-> out.table,
       nid    |-> out.nid,
       result |-> [type      |-> operation.type,
                   success   |-> out.ok,
                   length    |-> out.n,
                   \* processed: result.length || 1
                   processed |-> IF ~out.ok THEN 0
                                 ELSE IF out.n = 0 THEN 1 ELSE out.n]]

\* "Process operations in order": the state after operations k..Len
RECURSIVE processOperations(_, _, _, _, _, _, _)
processOperations(table, nid, results, operations, k, userId, faultAt) ==
  IF k > Len(operations)
    THEN [table |-> table, nid |-> nid, results |-> results]
    ELSE LET step == processBatchOperation(table, nid, operations[k], userId,
                                           faultAt = k)
         IN  processOperations(step.table, step.nid, Append(results, step.result),
                               operations, k + 1, userId, faultAt)

RECURSIVE SumProcessed(_)
SumProcessed(results) ==
  IF results = <<>> THEN 0
  ELSE results[1].processed + SumProcessed(Tail(results))

\* POST batch.  faultAt is the operation whose store call fails (0: none)
Batch(user, operations, faultAt) ==
  /\ nreq' = nreq + 1
  /\ IF user = NoUser
       THEN /\ resp' = [NoResp EXCEPT !.op = "batch", !.status = 401]
            /\ UNCHANGED <<calendar_events, nextId>>
       ELSE \E out \in {processOperations(calendar_events, nextId, <<>>,
                                          operations, 1, user, faultAt)} :
              /\ calendar_events' = out.table
              /\ nextId' = out.nid
              /\ resp' = [NoResp EXCEPT !.op = "batch", !.status = 200,
                            !.user = user,
                            !.results = out.results,
                            !.count = SumProcessed(out.results)]

Init ==
  /\ calendar_events = {}
  /\ nextId = 1
  /\ resp = NoResp
  /\ nreq = 0
  /\ handlers = <<>>

\* ------------------------------------------------------------ the requests
\* requests handled in one behaviour
MaxRequests == 3

\* three times of 2025-01-31 on the Date grid
Early == Timestamp(2025, 1, 31, 10, 0, 0)
Mid   == Timestamp(2025, 1, 31, 11, 0, 0)
Late  == Timestamp(2025, 1, 31, 12, 0, 0)

SpecRecurrences == {"none", "monthly"}

\* create bodies: two intervals that touch, an empty and a reversed interval
CreateBodies ==
  { [start_time |-> p[1], end_time |-> p[2], recurrence |-> rec] :
      p \in {<<Early, Mid>>, <<Mid, Late>>, <<Mid, Mid>>, <<Late, Early>>},
      rec \in SpecRecurrences }

\* update bodies: one time, both times (in and out of order), the recurrence,
\* and a body that names another owner
UpdateBodies ==
  { [f \in {"start_time"} |-> Late],
    [f \in {"end_time"} |-> Early],
    [f \in {"end_time"} |-> Late],
    [f \in {"start_time", "end_time"} |-> IF f = "start_time" THEN Early ELSE Late],
    [f \in {"start_time", "end_time"} |-> IF f = "start_time" THEN Late ELSE Early],
    [f \in {"recurrence"} |-> "daily"],
    [f \in {"user_id", "end_time"} |-> IF f = "user_id" THEN "u2" ELSE Late] }

\* ids a request names: the events without a parent, the first instance of
\* each series, an id of no row, and no id at all
FirstChild(table, id) ==
  LET kids == {r.id : r \in {x \in table : x.parent_event_id = id}}
  IN  {k \in kids : \A o \in kids : k <= o}

TargetIds(table) ==
  LET roots == {r.id : r \in {x \in table : x.parent_event_id = NULL}}
  IN  roots \cup UNION {FirstChild(table, id) : id \in roots} \cup {nextId, NULL}

\* a request without a valid token ends the same whatever else it carries
DoCreate ==
  \/ \E user \in Users, body \in CreateBodies : CreateEvent(user, body, "none")
  \/ \E user \in Users, fault \in {"conflict", "insert", "batch"} :
       CreateEvent(user, [start_time |-> Early, end_time |-> Mid,
                          recurrence |-> "monthly"], fault)
  \/ CreateEvent(NoUser, [start_time |-> Early, end_time |-> Mid,
                          recurrence |-> "none"], "none")

DoUpdate ==
  \/ \E user \in Users, id \in TargetIds(calendar_events),
        updateData \in UpdateBodies :
       UpdateEvent(user, id, updateData, "none")
  \/ \E user \in Users, id \in TargetIds(calendar_events),
        fault \in {"fetch", "conflict", "update"} :
       UpdateEvent(user, id, [f \in {"end_time"} |-> Late], fault)
  \/ UpdateEvent(NoUser, nextId, [f \in {"end_time"} |-> Late], "none")

DoDelete ==
  \/ \E user \in Users, id \in TargetIds(calendar_events),
        deleteRecurring \in BOOLEAN :
       DeleteEvent(user, id, deleteRecurring, "none")
  \/ \E user \in Users, id \in TargetIds(calendar_events),
        fault \in {"fetch", "delete"} :
       DeleteEvent(user, id, TRUE, fault)
  \/ DeleteEvent(NoUser, nextId, FALSE, "none")

\* events per batch operation
MaxBatchEvents == 2

SeqsUpTo(S, lo, hi) == UNION {[1..k -> S] : k \in lo..hi}

\* the two least ids a request may name
BatchIds(table) ==
  LET t == TargetIds(table) \ {NULL}
  IN  {i \in t : Cardinality({j \in t : j < i}) < 2}

BatchEvent(id, start, end, rec) ==
  [id |-> id, start_time |-> start, end_time |-> end, recurrence |-> rec]

\* the operations of a batch request.  The events of a create carry an id all
\* or none, and a create carries at least one event
BatchOps(table) ==
  LET plain   == {BatchEvent(NULL, Early, Mid, "none"),
                  BatchEvent(NULL, Late, Early, "none")}
      withId  == {BatchEvent(id, Mid, Late, "daily") : id \in BatchIds(table)}
      updates == {BatchEvent(id, Early, Late, "daily") : id \in BatchIds(table)}
                 \cup {BatchEvent(id, Late, Early, "none") : id \in BatchIds(table)}
                 \cup {BatchEvent(NULL, Early, Late, "none")}
      deletes == {BatchEvent(id, Early, Mid, "none") :
                    id \in BatchIds(table) \cup {NULL}}
  IN  {[type |-> "create", events |-> es] :
         es \in SeqsUpTo(plain, 1, MaxBatchEvents)
                \cup SeqsUpTo(withId, 1, 1)}
      \cup {[type |-> "update", events |-> es] :
              es \in SeqsUpTo(updates, 0, MaxBatchEvents)}
      \cup {[type |-> "delete", events |-> es] :
              es \in SeqsUpTo(deletes, 0, MaxBatchEvents)}

\* batch requests of one operation, and of a create followed by an operation
\* of at most one event on the table as it is before the request; the store
\* call that fails is the first of the operation, whatever events follow
DoBatch ==
  \/ \E user \in Users, op \in BatchOps(calendar_events) :
       Batch(user, <<op>>, 0)
  \/ \E user \in Users,
        op \in {o \in BatchOps(calendar_events) : Len(o.events) <= 1} :
       Batch(user, <<[type |-> "create",
                      events |-> <<BatchEvent(NULL, Early, Mid, "none")>>], op>>, 0)
  \/ \E user \in Users,
        op \in {o \in BatchOps(calendar_events) : Len(o.events) <= 1} :
       Batch(user, <<op>>, 1)
  \/ Batch(NoUser, <<>>, 0)

Next ==
  /\ nreq < MaxRequests
  /\ UNCHANGED handlers
  /\ \/ DoCreate
     \/ DoUpdate
     \/ DoDelete

Spec == Init /\ [][Next]_vars

\* the single requests and the batch requests together
MaxBatchRequests == 2

BatchNext ==
  /\ nreq < MaxBatchRequests
  /\ UNCHANGED handlers
  /\ \/ DoCreate
     \/ DoUpdate
     \/ DoDelete
     \/ DoBatch

BatchSpec == Init /\ [][BatchNext]_vars

\* ------------------------------------------- the recurrence expander alone
\* create-event on an empty table, over a calendar of base events
ExpLastYear == 2025
ExpDays == {1, 15, 28, 29, 30, 31}
ExpClock == {<<10, 0>>, <<23, 30>>}
ExpLengths == {60, 90}

DaysInMonth(y, m) == DaysFromCivil(IF m = 12 THEN y + 1 ELSE y,
                                   IF m = 12 THEN 1 ELSE m + 1, 1)
                     - DaysFromCivil(y, m, 1)

ExpDates ==
  {ymd \in (2024..ExpLastYear) \X (1..12) \X ExpDays :
     ymd[3] <= DaysInMonth(ymd[1], ymd[2])}

ExpBodies ==
  { [start_time |-> Timestamp(ymd[1], ymd[2], ymd[3], c[1], c[2], sub),
     end_time   |-> Timestamp(ymd[1], ymd[2], ymd[3], c[1], c[2], 0) + len * SubTicks,
     recurrence |-> rec] :
      ymd \in ExpDates, c \in ExpClock, sub \in 0..(SubTicks - 1),
      len \in ExpLengths, rec \in Recurrences }

ExpCreate ==
  /\ nreq = 0
  /\ UNCHANGED handlers
  /\ \E body \in ExpBodies : CreateEvent("u1", body, "none")

ExpFault ==
  /\ nreq = 0
  /\ UNCHANGED handlers
  /\ \E fault \in {"conflict", "insert", "batch"} :
       CreateEvent("u1", CHOOSE b \in ExpBodies : b.recurrence = "weekly", fault)

ExpNext == ExpCreate \/ ExpFault

ExpSpec == Init /\ [][ExpNext]_vars

\* ---------------------------------------------------- recurrence expansion
\* the last request created a base event, and its batch insert went through
Expanded(rec) ==
  /\ resp.op = "create" /\ resp.status = 201
  /\ resp.recurrence = rec
  /\ "batch" \notin resp.warn

BaseRow == Row(calendar_events, resp.id)
Instance(i) == Row(calendar_events, resp.recurring[i])
Derived == {r \in calendar_events : r.parent_event_id = resp.id}

\* C1: expanding a recurring base event yields exactly 29 (daily), 51 (weekly)
\* or 11 (monthly) derived instances, all of them written to the table
C1_InstanceCount ==
  \A rec \in {"daily", "weekly", "monthly"} :
    LET N == CASE rec = "daily" -> 29 [] rec = "weekly" -> 51 [] rec = "monthly" -> 11
    IN  /\ (resp.op = "create" /\ resp.status = 201 /\ resp.recurrence = rec)
             => resp.generated = N
        /\ Expanded(rec) =>
             /\ resp.count = N
             /\ Len(resp.recurring) = N
             /\ Cardinality(Derived) = N

C1_Witness == Expanded("monthly") /\ resp.count = 11

TicksPerDay == UnitsPerDay * SubTicks

\* timestamp s is i calendar months after timestamp b: the same day of the
\* month and the same time of day, i months on
MonthsLater(b, s, i) ==
  LET cb == CivilFromDays(b \div TicksPerDay)
      cs == CivilFromDays(s \div TicksPerDay)
  IN  /\ cs[3] = cb[3]
      /\ cs[1] * 12 + cs[2] = cb[1] * 12 + cb[2] + i
      /\ s % TicksPerDay = b % TicksPerDay

\* C2: instance i of a recurring base event starts exactly i units after the
\* start of the base event: i days (daily), 7 * i days (weekly), i calendar
\* months (monthly)
C2_StartsAtUnits ==
  \A rec \in {"daily", "weekly", "monthly"} :
    Expanded(rec) =>
      \A i \in 1..Len(resp.recurring) :
        LET s == Instance(i).start_time
            b == BaseRow.start_time
        IN  CASE rec = "daily"   -> s = b + i * TicksPerDay
              [] rec = "weekly"  -> s = b + 7 * i * TicksPerDay
              [] rec = "monthly" -> MonthsLater(b, s, i)

\* C3: every derived instance lasts exactly as long as its base event
C3_SameDuration ==
  \A rec \in {"daily", "weekly", "monthly"} :
    Expanded(rec) =>
      \A r \in Derived :
        r.end_time - r.start_time = BaseRow.end_time - BaseRow.start_time

\* C5: creating an event whose recurrence is none expands to nothing: no
\* instance is generated and no row refers to the new event as its parent
C5_NoneExpandsToNothing ==
  (resp.op = "create" /\ resp.status = 201 /\ resp.recurrence = "none") =>
    /\ resp.generated = 0
    /\ resp.count = 0
    /\ resp.recurring = <<>>
    /\ Derived = {}

C5_Witness ==
  /\ resp.op = "create" /\ resp.status = 201 /\ resp.recurrence = "none"
  /\ BaseRow \in calendar_events

\* the weekly base event of 2025-01-01, 10:00 to 11:00, was expanded
C6_Case ==
  /\ Expanded("weekly")
  /\ BaseRow.start_time = Timestamp(2025, 1, 1, 10, 0, 0)
  /\ BaseRow.end_time = Timestamp(2025, 1, 1, 11, 0, 0)

C6_First ==
  /\ resp.count = 51
  /\ Instance(1).start_time = Timestamp(2025, 1, 8, 10, 0, 0)
  /\ Instance(1).end_time = Timestamp(2025, 1, 8, 11, 0, 0)

\* C6 as stated: the weekly expansion of the event of 2025-01-01, 10:00 to
\* 11:00, has 51 instances, the first on 2025-01-08 and the last, instance
\* 51, on 2026-01-07, each from 10:00 to 11:00
C6_AsStated ==
  C6_Case =>
    /\ C6_First
    /\ Instance(51).start_time = Timestamp(2026, 1, 7, 10, 0, 0)
    /\ Instance(51).end_time = Timestamp(2026, 1, 7, 11, 0, 0)

\* C6 amended: 51 instances, the first on 2025-01-08 and the last, instance
\* 51, on 2025-12-24 (51 weeks after the base event), each from 10:00 to 11:00
C6_LastIsDec24 ==
  C6_Case =>
    /\ C6_First
    /\ Instance(51).start_time = Timestamp(2025, 12, 24, 10, 0, 0)
    /\ Instance(51).end_time = Timestamp(2025, 12, 24, 11, 0, 0)

C6_Witness == C6_Case /\ Len(resp.recurring) = 51

\* ------------------------------------------------------------- the table
\* C4: every derived instance written by create-event has recurrence none,
\* the base event of the same request as its parent, and the owner of that
\* base event
C4_InstancesBelongToBase ==
  (resp.op = "create" /\ resp.status = 201) =>
    /\ BaseRow.user_id = resp.user
    /\ BaseRow.parent_event_id = NULL
    /\ Derived = {Instance(i) : i \in 1..Len(resp.recurring)}
    /\ \A r \in Derived :
         /\ r.recurrence = "none"
         /\ r.parent_event_id = BaseRow.id
         /\ r.user_id = BaseRow.user_id

C4_Witness ==
  /\ resp.op = "create" /\ resp.status = 201
  /\ Cardinality(Derived) = 11
  /\ \E r \in calendar_events : r.id \notin Ids(Derived) \cup {resp.id}

\* C7: every row of the table has end_time > start_time, whatever requests
\* (create, update, delete, batch) have been handled
C7_EndAfterStart ==
  \A r \in calendar_events : r.end_time > r.start_time

\* a batch update went through and left the table with rows
C7_Witness ==
  /\ resp.op = "batch" /\ resp.status = 200
  /\ \E k \in 1..Len(resp.results) :
       /\ resp.results[k].type = "update"
       /\ resp.results[k].success
       /\ resp.results[k].length >= 1
  /\ calendar_events # {}

\* the times an update body asks for, given the stored row
ResultingStart(row, updateData) ==
  IF Has(updateData, "start_time") THEN updateData.start_time ELSE row.start_time
ResultingEnd(row, updateData) ==
  IF Has(updateData, "end_time") THEN updateData.end_time ELSE row.end_time

\* C8: an update of an event of the caller that supplies a time and whose
\* resulting times have end <= start is answered as a validation error (400)
\* and leaves the table as it was, no store call failing
C8_TimesRevalidated ==
  [][ (/\ nreq' = nreq + 1
       /\ resp'.op = "update" /\ resp'.fault = "none" /\ resp'.user \in Users
       /\ (Has(resp'.req, "start_time") \/ Has(resp'.req, "end_time"))
       /\ \E row \in calendar_events :
            /\ row.id = resp'.id /\ row.user_id = resp'.user
            /\ ResultingEnd(row, resp'.req) <= ResultingStart(row, resp'.req))
      => (resp'.status = 400 /\ calendar_events' = calendar_events) ]_vars

\* C9: a series delete (flag set) of an event without a parent removes that
\* event and every row whose parent_event_id is its id
C9_SeriesDeleteFromBase ==
  (resp.op = "delete" /\ resp.status = 200 /\ resp.flag /\ resp.parent = NULL) =>
    /\ resp.id \notin Ids(calendar_events)
    /\ \A r \in calendar_events : r.parent_event_id # resp.id

\* the two requests were the create of a monthly series and its series delete
C9_Witness ==
  /\ resp.op = "delete" /\ resp.status = 200 /\ resp.flag /\ resp.parent = NULL
  /\ nreq = 2 /\ nextId = 13 /\ calendar_events = {}

\* C10: a series delete (flag set) of an event with a parent removes the
\* parent row and the rows of the caller whose parent_event_id is that
\* parent, and every other row stays as it was
C10_SeriesDeleteFromInstance ==
  [][ (/\ nreq' = nreq + 1
       /\ resp'.op = "delete" /\ resp'.status = 200
       /\ resp'.flag /\ resp'.parent # NULL)
      => calendar_events' =
           {r \in calendar_events :
              ~ \/ r.id = resp'.parent
                \/ (r.parent_event_id = resp'.parent /\ r.user_id = resp'.user)}
    ]_vars

\* a series was deleted through an instance and rows outside it are left
C10_Witness ==
  /\ resp.op = "delete" /\ resp.status = 200 /\ resp.flag /\ resp.parent # NULL
  /\ resp.count = 12
  /\ calendar_events # {}

\* ------------------------------------------------------------ delete-event
\* C11: a successful delete-event reports as deleted count the number of rows
\* the request removed from the table, the rows removed through the
\* parent_event_id cascade included
C11_CountIsRowsRemoved ==
  [][ (/\ nreq' = nreq + 1
       /\ resp'.op = "delete" /\ resp'.status = 200)
      => resp'.count = Cardinality(calendar_events \ calendar_events') ]_vars

\* ------------------------------------------------------- conflict reporting
\* half-open intervals [aStart, aEnd) and [bStart, bEnd) share an instant
Overlaps(aStart, aEnd, bStart, bEnd) == aStart < bEnd /\ aEnd > bStart

\* a create-event went through, and its conflict query returned without error
CreatedWithConflictCheck ==
  /\ nreq' = nreq + 1
  /\ resp'.op = "create" /\ resp'.status = 201
  /\ "conflict" \notin resp'.warn

\* C12: create-event reports every event of the caller that overlaps the
\* new event: each row r stored before the request with
\* r.start_time < new.end_time and r.end_time > new.start_time is among the
\* reported conflicts
C12_ConflictsComplete ==
  [][ CreatedWithConflictCheck =>
        LET new == Row(calendar_events', resp'.id)
        IN  \A r \in calendar_events :
              (/\ r.user_id = resp'.user
               /\ Overlaps(new.start_time, new.end_time, r.start_time, r.end_time))
                => r.id \in resp'.conflicts ]_vars

\* ------------------------------------------------- check_event_conflicts
\* mutant: the WHEN of overlaps_start moved to the head of the CASE
overlap_type_start_first(e, event_start, event_end) ==
  IF e.start_time < event_start /\ e.end_time > event_start
    THEN "overlaps_start"
  ELSE IF e.start_time < event_start /\ e.end_time > event_end THEN "encompasses"
  ELSE IF e.start_time >= event_start /\ e.end_time <= event_end THEN "within"
  ELSE IF e.start_time < event_end /\ e.end_time > event_end THEN "overlaps_end"
  ELSE "adjacent"

\* the CASE of check_event_conflicts: the first WHEN that holds, in order
overlap_type(e, event_start, event_end) ==
  IF e.start_time < event_start /\ e.end_time > event_end THEN "encompasses"
  ELSE IF e.start_time >= event_start /\ e.end_time <= event_end THEN "within"
  ELSE IF e.start_time < event_start /\ e.end_time > event_start
    THEN "overlaps_start"
  ELSE IF e.start_time < event_end /\ e.end_time > event_end THEN "overlaps_end"
  ELSE "adjacent"

\* mutant: the WHERE clause of check_event_conflicts over closed intervals
check_event_conflicts_closed(table, event_start, event_end, event_user_id, exclude_event_id) ==
  {e \in table : /\ e.user_id = event_user_id
                 /\ (exclude_event_id = NULL \/ e.id # exclude_event_id)
                 /\ e.start_time <= event_end
                 /\ e.end_time >= event_start}

\* the rows the WHERE clause of check_event_conflicts selects
check_event_conflicts(table, event_start, event_end, event_user_id, exclude_event_id) ==
  {e \in table : /\ e.user_id = event_user_id
                 /\ (exclude_event_id = NULL \/ e.id # exclude_event_id)
                 /\ e.start_time < event_end
                 /\ e.end_time > event_start}

\* mutant: check_event_conflicts without its ORDER BY
OrderByStartTime_dropped(rows) ==
  {seq \in [1..Cardinality(rows) -> rows] :
     \A i, j \in 1..Cardinality(rows) : seq[i] = seq[j] => i = j}

\* ORDER BY e.start_time: the orders the statement may return the rows in
OrderByStartTime(rows) ==
  {seq \in [1..Cardinality(rows) -> rows] :
     /\ \A i, j \in 1..Cardinality(rows) : seq[i] = seq[j] => i = j
     /\ \A i, j \in 1..Cardinality(rows) :
          i < j => seq[i].start_time <= seq[j].start_time}

\* a call of check_event_conflicts by `user` (event_user_id = auth.uid()).
\* resp.results is the table returned, resp.req the interval asked about
CheckEventConflicts(user, event_start, event_end, exclude_event_id) ==
  /\ UNCHANGED <<calendar_events, nextId, nreq>>
  /\ \E rows \in {check_event_conflicts(calendar_events, event_start, event_end,
                                        user, exclude_event_id)} :
     \E seq \in OrderByStartTime(rows) :
       resp' = [NoResp EXCEPT
                  !.op = "check", !.status = 200, !.user = user,
                  !.id = exclude_event_id,
                  !.req = [start_time |-> event_start, end_time |-> event_end],
                  !.conflicts = Ids(rows),
                  !.results = [i \in 1..Len(seq) |->
                                 [id           |-> seq[i].id,
                                  start_time   |-> seq[i].start_time,
                                  end_time     |-> seq[i].end_time,
                                  overlap_type |-> overlap_type(seq[i], event_start,
                                                                event_end)]]]

\* ------------------------------------------- conflicts over a grid of times
\* rows in the table of ConflictSpec
MaxConflictEvents == 2

\* times of 2025-01-31: 09:00 09:30 10:00 10:30 10:45 11:00 12:00
ConfTimes ==
  {Timestamp(2025, 1, 31, c[1], c[2], 0) :
     c \in {<<9, 0>>, <<9, 30>>, <<10, 0>>, <<10, 30>>, <<10, 45>>, <<11, 0>>,
            <<12, 0>>}}

ConfIntervals == {p \in ConfTimes \X ConfTimes : p[1] < p[2]}

\* the interval [10:00, 11:00)
TenToEleven ==
  <<Timestamp(2025, 1, 31, 10, 0, 0), Timestamp(2025, 1, 31, 11, 0, 0)>>

\* u1 creates events over any interval of the grid, u2 over [10:00, 11:00)
ConfCreate ==
  /\ Cardinality(calendar_events) < MaxConflictEvents
  /\ UNCHANGED handlers
  /\ \/ \E p \in ConfIntervals :
          CreateEvent("u1", [start_time |-> p[1], end_time |-> p[2],
                             recurrence |-> "none"], "none")
     \/ CreateEvent("u2", [start_time |-> TenToEleven[1],
                           end_time |-> TenToEleven[2],
                           recurrence |-> "none"], "none")

\* u1 asks about any interval of the grid; about [10:00, 11:00) either user
\* asks, with or without an event to exclude.  The call reads the table
\* only, so one call is taken after each create
ConfCheck ==
  /\ resp.op # "check"
  /\ UNCHANGED handlers
  /\ \/ \E p \in ConfIntervals : CheckEventConflicts("u1", p[1], p[2], NULL)
     \/ \E user \in Users, id \in Ids(calendar_events) \cup {NULL} :
          CheckEventConflicts(user, TenToEleven[1], TenToEleven[2], id)

ConflictNext == ConfCreate \/ ConfCheck

ConflictSpec == Init /\ [][ConflictNext]_vars

\* row r of `user` touches the interval [s, e) without overlapping it
Touches(r, user, s, e) ==
  r.user_id = user /\ (r.start_time = e \/ r.end_time = s)

At(hh, mi) == Timestamp(2025, 1, 31, hh, mi, 0)

\* the kind the call reported for the row [bStart, bEnd), if it reported one
KindOf(bStart, bEnd) ==
  {resp.results[k].overlap_type :
     k \in {j \in 1..Len(resp.results) : /\ resp.results[j].start_time = bStart
                                         /\ resp.results[j].end_time = bEnd}}

\* C14: for the query interval A and each overlapping row B it returns,
\* check_event_conflicts gives the first kind that matches, in the order
\* encompasses (bStart < aStart, bEnd > aEnd), within (bStart >= aStart,
\* bEnd <= aEnd), overlaps_start (bStart < aStart, bEnd > aStart),
\* overlaps_end (bStart < aEnd, bEnd > aEnd), adjacent; against
\* A = [10:00, 11:00) it gives within for [10:30, 10:45), encompasses for
\* [09:00, 12:00) and overlaps_start for [09:30, 10:30)
C14_ClassifyInOrder ==
  resp.op = "check" =>
    /\ \A k \in 1..Len(resp.results) :
         LET aStart == resp.req.start_time
             aEnd   == resp.req.end_time
             bStart == resp.results[k].start_time
             bEnd   == resp.results[k].end_time
             kind   == resp.results[k].overlap_type
             enc    == bStart < aStart /\ bEnd > aEnd
             wit    == bStart >= aStart /\ bEnd <= aEnd
             ost    == bStart < aStart /\ bEnd > aStart
             oen    == bStart < aEnd /\ bEnd > aEnd
         IN  /\ kind = "encompasses" <=> enc
             /\ kind = "within" <=> (~enc /\ wit)
             /\ kind = "overlaps_start" <=> (~enc /\ ~wit /\ ost)
             /\ kind = "overlaps_end" <=> (~enc /\ ~wit /\ ~ost /\ oen)
             /\ kind = "adjacent" <=> (~enc /\ ~wit /\ ~ost /\ ~oen)
    /\ resp.req = [start_time |-> At(10, 0), end_time |-> At(11, 0)] =>
         /\ KindOf(At(10, 30), At(10, 45)) \subseteq {"within"}
         /\ KindOf(At(9, 0), At(12, 0)) \subseteq {"encompasses"}
         /\ KindOf(At(9, 30), At(10, 30)) \subseteq {"overlaps_start"}

\* [10:00, 11:00) was asked about with [09:00, 12:00) and [09:30, 10:30) stored
C14_Witness ==
  /\ resp.op = "check"
  /\ resp.req = [start_time |-> At(10, 0), end_time |-> At(11, 0)]
  /\ KindOf(At(9, 0), At(12, 0)) = {"encompasses"}
  /\ KindOf(At(9, 30), At(10, 30)) = {"overlaps_start"}

\* an update-event that supplied a time went through
UpdatedTimes ==
  /\ nreq' = nreq + 1
  /\ resp'.op = "update" /\ resp'.status = 200
  /\ (Has(resp'.req, "start_time") \/ Has(resp'.req, "end_time"))

\* C15: the result of an update that changes start_time or end_time reports
\* the other events of the caller that overlap the resulting interval
C15_UpdateReportsConflicts ==
  [][ UpdatedTimes =>
        LET updated == Row(calendar_events', resp'.id)
        IN  resp'.conflicts =
              {r.id : r \in {x \in calendar_events' :
                               /\ x.user_id = resp'.user
                               /\ x.id # resp'.id
                               /\ Overlaps(updated.start_time, updated.end_time,
                                           x.start_time, x.end_time)}} ]_vars

\* rows of `user` other than `id` that overlap [s, e) in `table`
OverlappingRows(table, user, id, s, e) ==
  {x \in table : /\ x.user_id = user /\ x.id # id
                 /\ Overlaps(s, e, x.start_time, x.end_time)}

\* C16: conflicts never block a write.  A create-event with a valid body, and
\* an update-event of an event of the caller with a valid body and valid
\* resulting times, goes through and its row is in the table, whatever rows
\* of the caller overlap it and whether or not the conflict query failed,
\* unless the insert or update call itself fails
C16_ConflictsNeverBlock ==
  [][ /\ (/\ nreq' = nreq + 1
          /\ resp'.op = "create" /\ resp'.user \in Users
          /\ resp'.fault = "none"
          /\ CreateEventSchema(resp'.req))
         => /\ resp'.status = 201
            /\ calendar_events \subseteq calendar_events'
            /\ \E r \in calendar_events' \ calendar_events :
                 /\ r.id = resp'.id /\ r.user_id = resp'.user
                 /\ r.start_time = resp'.req.start_time
                 /\ r.end_time = resp'.req.end_time
      /\ (/\ nreq' = nreq + 1
          /\ resp'.op = "update" /\ resp'.user \in Users
          /\ resp'.fault = "none"
          /\ UpdateEventSchema(resp'.req)
          /\ \E row \in calendar_events :
               /\ row.id = resp'.id /\ row.user_id = resp'.user
               /\ ResultingEnd(row, resp'.req) > ResultingStart(row, resp'.req))
         => /\ resp'.status = 200
            /\ \E row \in calendar_events :
                 /\ row.id = resp'.id
                 /\ calendar_events' =
                      (calendar_events \ {row})
                        \cup {SetColumns(row, resp'.req)} ]_vars

\* a create went through although its conflict query failed and an event of
\* the caller overlaps the new one
C16_Witness ==
  /\ resp.op = "create" /\ resp.status = 201
  /\ "conflict" \in resp.warn
  /\ OverlappingRows(calendar_events, resp.user, resp.id,
                     BaseRow.start_time, BaseRow.end_time) # {}

\* ------------------------------------------------------- error handling
\* C17: when the batch insert of the derived instances fails after the base
\* event was inserted, create-event still answers 201, the base event is in
\* the table, no row has it as parent, and the count of recurring instances
\* created is 0
C17_BatchFailureKeepsBase ==
  (resp.op = "create" /\ "batch" \in resp.warn) =>
    /\ resp.status = 201
    /\ \E r \in calendar_events : r.id = resp.id /\ r.user_id = resp.user
    /\ Derived = {}
    /\ resp.count = 0
    /\ resp.recurring = <<>>

\* the batch insert of the 11 instances of a monthly event failed
C17_Witness ==
  /\ resp.op = "create" /\ "batch" \in resp.warn
  /\ resp.recurrence = "monthly" /\ resp.generated = 11
  /\ BaseRow.recurrence = "monthly"

\* an update-event or delete-event of an authenticated caller that names an
\* id and, for an update, carries a body that passes UpdateEventSchema
WellFormedOnId ==
  /\ nreq' = nreq + 1
  /\ resp'.op \in {"update", "delete"}
  /\ resp'.user \in Users
  /\ resp'.id # NULL
  /\ resp'.op = "update" => UpdateEventSchema(resp'.req)

\* C18: update-event and delete-event on an id that names no row, or a row
\* of another owner, answer not found (404) and leave every row of the table
\* as it was
C18_NotFoundChangesNothing ==
  [][ (/\ WellFormedOnId
       /\ ~ \E r \in calendar_events :
              r.id = resp'.id /\ r.user_id = resp'.user)
      => (resp'.status = 404 /\ calendar_events' = calendar_events) ]_vars

\* an update of an event of another owner was answered not found
C18_Witness ==
  /\ resp.op = "update" /\ resp.status = 404 /\ resp.fault = "none"
  /\ \E r \in calendar_events : r.id = resp.id /\ r.user_id # resp.user

\* ------------------------------------------------------ rows over time
\* C19: every row with a parent_event_id (a derived instance) has recurrence
\* none, whatever create, update and batch requests have been handled
C19_DerivedRecurrenceNone ==
  \A r \in calendar_events : r.parent_event_id # NULL => r.recurrence = "none"

\* C20: user_id is immutable: no request changes the user_id of a row, so a
\* row keeps the owner it was created with for as long as it is in the table
C20_OwnerImmutable ==
  [][ \A r \in calendar_events : \A q \in calendar_events' :
        q.id = r.id => q.user_id = r.user_id ]_vars

\* an update whose body named another owner went through and changed the row
C20_Witness ==
  /\ resp.op = "update" /\ resp.status = 200
  /\ Has(resp.raw, "user_id")
  /\ resp.raw.user_id # resp.user
  /\ \E r \in calendar_events :
       /\ r.id = resp.id /\ r.user_id = resp.user
       /\ r.end_time = resp.raw.end_time

\* ------------------------------------------------------------- list-events
\* a query parameter, header or session that is absent
Absent == ""

\* user?.id || user_id || userId
queryUserId(user, user_id, userId) ==
  IF user # Absent THEN user ELSE IF user_id # Absent THEN user_id ELSE userId

\* uuidRegex.test(queryUserId): the uuids of the model are the users
uuidRegexTest(id) == id \in Users

\* the rows the query of getEvents selects before the search and category
\* filters: .eq("user_id"), .gte and .lte on start_time when the dates are given
getEventsQuery(table, userId, start_date, end_date) ==
  {r \in table : /\ r.user_id = userId
                 /\ (start_date # NULL => r.start_time >= start_date)
                 /\ (end_date # NULL => r.start_time <= end_date)}

\* mutant: the query without .order("start_time", { ascending: true })
orderStartTimeAscending_dropped(rows) ==
  {seq \in [1..Cardinality(rows) -> rows] :
     \A i, j \in 1..Cardinality(rows) : seq[i] = seq[j] => i = j}

\* .order("start_time", { ascending: true }): the orders the rows may come in
orderStartTimeAscending(rows) ==
  {seq \in [1..Cardinality(rows) -> rows] :
     /\ \A i, j \in 1..Cardinality(rows) : seq[i] = seq[j] => i = j
     /\ \A i, j \in 1..Cardinality(rows) :
          i < j => seq[i].start_time <= seq[j].start_time}

\* GET list-events.  auth is the user of supabase.auth.getUser(), Absent, or
\* "error"; user_id the query parameter, userId the user-id header.  The
\* search and category filters read columns the rows do not carry: they keep
\* any part `kept` of the selected rows.  resp.results are the rows returned
GetEvents(auth, user_id, userId, start_date, end_date, fault) ==
  LET id   == queryUserId(auth, user_id, userId)
      base == [NoResp EXCEPT !.op = "list", !.user = id,
                 !.req = [start_date |-> start_date, end_date |-> end_date]]
  IN
  /\ UNCHANGED <<calendar_events, nextId, nreq>>
  /\ IF auth = "error"
       THEN resp' = [NoResp EXCEPT !.op = "list", !.status = 401]
     ELSE IF ~uuidRegexTest(id)
       THEN resp' = [base EXCEPT !.status = 400]
     ELSE IF fault
       THEN resp' = [base EXCEPT !.status = 500, !.fault = "select"]
     ELSE \E rows \in {getEventsQuery(calendar_events, id, start_date, end_date)} :
          \E kept \in SUBSET rows :
          \E seq \in orderStartTimeAscending(kept) :
            resp' = [base EXCEPT !.status = 200, !.results = seq,
                                 !.count = Len(seq)]

\* rows in the table of ListSpec
MaxListEvents == 3

\* either user creates events over the intervals between three times
ListCreate ==
  /\ Cardinality(calendar_events) < MaxListEvents
  /\ UNCHANGED handlers
  /\ \E user \in Users,
        p \in {<<Early, Mid>>, <<Early, Late>>, <<Mid, Late>>} :
       CreateEvent(user, [start_time |-> p[1], end_time |-> p[2],
                          recurrence |-> "none"], "none")

\* the requests read the table only, so one is taken after each create
ListGet ==
  /\ resp.op # "list"
  /\ UNCHANGED handlers
  /\ \/ \E auth \in Users \cup {Absent}, user_id \in Users \cup {Absent},
           start_date \in {NULL, Mid}, end_date \in {NULL, Mid} :
          GetEvents(auth, user_id, "u2", start_date, end_date, FALSE)
     \/ \E auth \in {"error", Absent}, userId \in {Absent, "admin"},
           fault \in BOOLEAN :
          GetEvents(auth, IF fault THEN "u1" ELSE Absent, userId, NULL, NULL,
                    fault)

ListNext == ListCreate \/ ListGet

ListSpec == Init /\ [][ListNext]_vars

\* C21: the events list-events returns are in ascending order of start_time,
\* and each of them is a row of the table whose user_id is the one user id
\* the request resolved to
C21_ListSortedAndOwned ==
  (resp.op = "list" /\ resp.status = 200) =>
    /\ \A i, j \in 1..Len(resp.results) :
         i < j => resp.results[i].start_time <= resp.results[j].start_time
    /\ \A i \in 1..Len(resp.results) :
         /\ resp.results[i] \in calendar_events
         /\ resp.results[i].user_id = resp.user

\* two events came back in an order that is not the order of their creation,
\* the table holding an event of the other user as well
C21_Witness ==
  /\ resp.op = "list" /\ resp.status = 200
  /\ Len(resp.results) = 2
  /\ resp.results[1].id > resp.results[2].id
  /\ resp.results[1].start_time < resp.results[2].start_time
  /\ \E r \in calendar_events : r.user_id # resp.user

\* C22: the rows check_event_conflicts returns for a candidate interval are
\* in ascending order of the start_time of the existing events
C22_ConflictsOrdered ==
  resp.op = "check" =>
    \A i, j \in 1..Len(resp.results) :
      i < j => resp.results[i].start_time <= resp.results[j].start_time

\* two conflicts came back, the later created event first
C22_Witness ==
  /\ resp.op = "check"
  /\ Len(resp.results) = 2
  /\ resp.results[1].id > resp.results[2].id
  /\ resp.results[1].start_time < resp.results[2].start_time

\* --------------------------------------------------- the /api/users routes
\* the middleware chain express runs for a route of userRoutes.js
GuardedRoutes ==
  {"GET /:userId/profile", "PUT /:userId/profile", "GET /:userId/admin-status",
   "DELETE /:userId", "GET /:userId/stats", "GET /:userId/preferences",
   "PUT /:userId/preferences", "GET /:userId/activity", "POST /:userId/avatar",
   "PUT /:userId/email", "GET /:userId/export"}

TokenRoutes == {"POST /profile", "PUT /me", "GET /me"}

PublicRoutes == {"POST /verify", "POST /verify-email"}

Chain(route) ==
  IF route \in GuardedRoutes
    THEN <<"authenticateToken", "requireOwnership", "handler">>
  ELSE IF route \in TokenRoutes THEN <<"authenticateToken", "handler">>
  ELSE <<"handler">>

\* the Authorization headers of the requests: none, another scheme, and
\* bearer tokens of u1, of u2 and of nobody
AuthHeaders ==
  {[scheme |-> Absent, token |-> Absent],
   [scheme |-> "Basic", token |-> "tok-u1"],
   [scheme |-> "Bearer", token |-> "tok-u1"],
   [scheme |-> "Bearer", token |-> "tok-u2"],
   [scheme |-> "Bearer", token |-> "expired"],
   [scheme |-> "Bearer", token |-> Absent]}

\* verifyAuthToken: the user of supabase.auth.getUser(token), Absent on an
\* error (it catches what getUser throws)
verifyAuthToken(token) ==
  IF token = "tok-u1" THEN "u1" ELSE IF token = "tok-u2" THEN "u2" ELSE Absent

\* authenticateToken: the status it answers, 0 when it calls next()
authenticateToken(authHeader) ==
  IF authHeader.scheme # "Bearer" THEN 401
  ELSE IF verifyAuthToken(authHeader.token) = Absent THEN 401
  ELSE 0

\* req.params[userIdField] || req.body[userIdField] || req.query[userIdField]
resourceUserId(params, body, query) ==
  IF params # Absent THEN params ELSE IF body # Absent THEN body ELSE query

\* mutant: requireOwnership that lets every authenticated user through
requireOwnership_any_user(user, resource) ==
  IF user = Absent THEN 401
  ELSE IF resource = Absent THEN 400
  ELSE 0

\* requireOwnership("userId"): the status it answers, 0 when it calls next()
requireOwnership(user, resource) ==
  IF user = Absent THEN 401
  ELSE IF resource = Absent THEN 400
  ELSE IF user # resource THEN 403
  ELSE 0

\* a request is in flight: resp.req is the request, resp.results the functions
\* of the chain that have run, resp.user is req.user, resp.status stays 0
\* until one of them answers
InFlight == resp.op = "users" /\ resp.status = 0

NextInChain ==
  IF InFlight /\ Len(resp.results) < Len(Chain(resp.req.route))
    THEN Chain(resp.req.route)[Len(resp.results) + 1]
    ELSE "none"

\* express hands a request to the first function of the chain of its route
UsersRequest ==
  /\ ~InFlight
  /\ UNCHANGED <<calendar_events, nextId, nreq, handlers>>
  /\ \E route \in GuardedRoutes \cup TokenRoutes \cup PublicRoutes,
        authHeader \in AuthHeaders,
        userId \in Users, body \in {Absent, "u1"} :
       resp' = [NoResp EXCEPT
                  !.op = "users",
                  !.req = [route |-> route, authorization |-> authHeader,
                           \* :userId of the path, where the route has one
                           params |-> IF route \in GuardedRoutes
                                        THEN userId ELSE Absent,
                           body |-> body]]

RunAuthenticateToken ==
  /\ NextInChain = "authenticateToken"
  /\ UNCHANGED <<calendar_events, nextId, nreq, handlers>>
  /\ resp' = [resp EXCEPT
                !.results = Append(@, "authenticateToken"),
                !.status = authenticateToken(resp.req.authorization),
                !.user = IF authenticateToken(resp.req.authorization) = 0
                           THEN verifyAuthToken(resp.req.authorization.token)
                           ELSE Absent]

RunRequireOwnership ==
  /\ NextInChain = "requireOwnership"
  /\ UNCHANGED <<calendar_events, nextId, nreq, handlers>>
  /\ resp' = [resp EXCEPT
                !.results = Append(@, "requireOwnership"),
                !.status = requireOwnership(
                             resp.user,
                             resourceUserId(resp.req.params, resp.req.body,
                                            Absent))]

\* the route handler runs and answers
RunHandler ==
  /\ NextInChain = "handler"
  /\ UNCHANGED <<calendar_events, nextId, nreq, handlers>>
  /\ \E status \in {200, 400, 500} :
       resp' = [resp EXCEPT !.results = Append(@, "handler"),
                            !.status = status]

UsersNext ==
  \/ UsersRequest
  \/ RunAuthenticateToken
  \/ RunRequireOwnership
  \/ RunHandler

UsersSpec == Init /\ [][UsersNext]_vars

\* the request carries a bearer token of a user, and that user is :userId
ValidTokenOf(req) ==
  /\ req.authorization.scheme = "Bearer"
  /\ req.authorization.token \in {"tok-u1", "tok-u2"}

OwnToken(req) ==
  /\ ValidTokenOf(req)
  /\ (req.authorization.token = "tok-u1") <=> (req.params = "u1")

\* C23: on a route guarded by authenticateToken and requireOwnership the
\* handler runs only for a request with a valid bearer token whose user is
\* :userId; any other request is answered 401 (token missing or invalid) or
\* 403 (token of another user), the handler not having run
C23_GuardedRoutes ==
  (resp.op = "users" /\ resp.req.route \in GuardedRoutes) =>
    /\ "handler" \in Range(resp.results) => OwnToken(resp.req)
    /\ (resp.status # 0 /\ ~OwnToken(resp.req)) =>
         /\ "handler" \notin Range(resp.results)
         /\ resp.status = IF ValidTokenOf(resp.req) THEN 403 ELSE 401

\* the handler of a guarded route ran for the owner, whose request named
\* another user in its body
C23_Witness ==
  /\ resp.op = "users" /\ resp.req.route = "DELETE /:userId"
  /\ "handler" \in Range(resp.results)
  /\ resp.user = "u2" /\ resp.req.params = "u2" /\ resp.req.body = "u1"

\* ------------------------------------------------------ delete, continued
\* C24: a delete-event without the series-delete flag removes the target row
\* and nothing else: every other row, the instances whose parent_event_id is
\* the target included, stays as it was
C24_PlainDeleteRemovesOne ==
  [][ (/\ nreq' = nreq + 1
       /\ resp'.op = "delete" /\ resp'.status = 200
       /\ ~resp'.flag)
      => calendar_events' = {r \in calendar_events : r.id # resp'.id} ]_vars

\* ------------------------------------------------- overlap kinds, continued
\* C25: the overlap kind adjacent is never produced: every row that
\* check_event_conflicts returns, a row with end_time > start_time that passes
\* start_time < event_end and end_time > event_start, is classified
\* encompasses, within, overlaps_start or overlaps_end
C25_AdjacentNeverProduced ==
  resp.op = "check" =>
    \A k \in 1..Len(resp.results) :
      resp.results[k].overlap_type
        \in {"encompasses", "within", "overlaps_start", "overlaps_end"}

\* a call returned rows of the kinds overlaps_start and overlaps_end
C25_Witness ==
  /\ resp.op = "check"
  /\ {resp.results[k].overlap_type : k \in 1..Len(resp.results)}
       = {"overlaps_start", "overlaps_end"}

\* ------------------------------------------------- requests that overlap
\* Handlers are async functions: between two awaited store calls of one
\* request the store calls of other requests run.  A step below is one store
\* call (one statement, atomic in the store) of one request in flight; the
\* store calls succeed unless a constraint of the table refuses the rows.

MaxHandlers == 3

\* every create of this specification is the base of a series
ConcRecurrences == {"monthly"}

\* the locals of a handler that has not made a store call yet
NoHandler ==
  [op |-> "none", pc |-> "done", user |-> "", recurrence |-> "none",
   id |-> NULL, flag |-> FALSE, parent |-> NULL, status |-> 0, count |-> 0,
   conflicts |-> {}, recurring |-> {}, during |-> {}]

Slots == 1..Len(handlers)

\* mutant: instances are inserted without the reference being checked
ForeignKeyHolds_unchecked(table, row) == TRUE

\* parent_event_id UUID REFERENCES calendar_events(id): an insert naming a
\* parent that is not in the table is refused
ForeignKeyHolds(table, row) ==
  row.parent_event_id = NULL \/ row.parent_event_id \in Ids(table)

\* mutant: the handler reads the newest base event of its caller back from
\* the table before it generates the instances
baseEventOf_newest(table, h) ==
  LET own == {r \in table : r.user_id = h.user /\ r.parent_event_id = NULL}
  IN  IF own = {}
        THEN [id |-> h.id, user_id |-> h.user, start_time |-> Early,
              end_time |-> Mid, recurrence |-> h.recurrence,
              parent_event_id |-> NULL]
        ELSE CHOOSE r \in own : \A o \in own : o.id <= r.id

\* newEvent: the row the insert returned (.select().single()), kept in a
\* local of the handler whatever happens to the table afterwards
baseEventOf(table, h) ==
  [id |-> h.id, user_id |-> h.user, start_time |-> Early, end_time |-> Mid,
   recurrence |-> h.recurrence, parent_event_id |-> NULL]

\* A request enters with its first store call on the table; what the handler
\* does before (the token check, the validation of the body) reads no event.

\* the caller of the create requests; delete requests come from every user
ConcCreators == {"u1"}

\* create-event, token and body ([Early, Mid)) valid: the select of "Check
\* for conflicts"
ConcConflictQuery ==
  /\ Len(handlers) < MaxHandlers
  /\ UNCHANGED <<calendar_events, nextId, resp, nreq>>
  /\ \E user \in ConcCreators, recurrence \in ConcRecurrences :
       handlers' = Append(handlers,
         [NoHandler EXCEPT
            !.op = "create", !.pc = "insert",
            !.user = user, !.recurrence = recurrence,
            !.conflicts = createConflictQuery(calendar_events, user,
                            [start_time |-> Early, end_time |-> Mid])])

\* the insert of the base event
ConcInsert ==
  /\ UNCHANGED <<resp, nreq>>
  /\ \E i \in Slots :
       LET h == handlers[i]
           newEvent == [id |-> nextId, user_id |-> h.user,
                        start_time |-> Early, end_time |-> Mid,
                        recurrence |-> h.recurrence, parent_event_id |-> NULL]
       IN  /\ h.op = "create" /\ h.pc = "insert"
           /\ calendar_events' = calendar_events \cup {newEvent}
           /\ nextId' = nextId + 1
           /\ handlers' = [handlers EXCEPT
                ![i].id = newEvent.id,
                ![i].pc = IF h.recurrence # "none" THEN "batch" ELSE "done",
                ![i].status = IF h.recurrence # "none" THEN 0 ELSE 201]

\* the insert of generateRecurringEvents: one statement, all rows or none
ConcBatchInsert ==
  /\ UNCHANGED <<resp, nreq>>
  /\ \E i \in Slots :
       /\ handlers[i].op = "create" /\ handlers[i].pc = "batch"
       /\ \E objs \in {generateRecurringEvents(
                         baseEventOf(calendar_events, handlers[i]),
                         handlers[i].recurrence, handlers[i].user)} :
          \E ok \in {\A k \in 1..Len(objs) :
                       /\ RowAllowed(objs[k])
                       /\ ForeignKeyHolds(calendar_events, objs[k])} :
          \E rows \in {IF ok THEN Range(WithIds(objs, nextId)) ELSE {}} :
            /\ calendar_events' = calendar_events \cup rows
            /\ nextId' = nextId + Cardinality(rows)
            /\ handlers' = [handlers EXCEPT
                 ![i].pc = "done", ![i].status = 201,
                 ![i].recurring = Ids(rows),
                 ![i].count = Cardinality(rows)]

\* delete-event, token valid and ?id= present: "Check if event exists and
\* belongs to user"
ConcFetch ==
  /\ Len(handlers) < MaxHandlers
  /\ UNCHANGED <<calendar_events, nextId, resp, nreq>>
  /\ \E user \in Users, eventId \in TargetIds(calendar_events) \cap Ids(calendar_events),
        deleteRecurring \in BOOLEAN :
       \E found \in {fetchExisting(calendar_events, eventId, user)} :
         handlers' = Append(handlers,
           IF found = {}
             THEN [NoHandler EXCEPT
                     !.op = "delete", !.pc = "done", !.user = user,
                     !.id = eventId, !.flag = deleteRecurring, !.status = 404]
             ELSE [NoHandler EXCEPT
                     !.op = "delete", !.pc = "delete", !.user = user,
                     !.id = eventId, !.flag = deleteRecurring,
                     !.parent = (CHOOSE r \in found : TRUE).parent_event_id])

\* the delete statement, of the series or of the one event.  during: the
\* other delete requests that had passed their existence check by then
ConcDelete ==
  /\ UNCHANGED <<nextId, resp, nreq>>
  /\ \E i \in Slots :
       /\ handlers[i].op = "delete" /\ handlers[i].pc = "delete"
       /\ \E targets \in {deleteTargets(calendar_events, handlers[i].user,
                            handlers[i].id,
                            [parent_event_id |-> handlers[i].parent],
                            handlers[i].flag)} :
          \E deletedCount \in {Cardinality(targets)} :
            /\ calendar_events' = DeleteRows(calendar_events, Ids(targets))
            /\ handlers' = [handlers EXCEPT
                 ![i].pc = "done",
                 ![i].status = IF deletedCount = 0 THEN 404 ELSE 200,
                 ![i].count = deletedCount,
                 ![i].during = {j \in Slots \ {i} :
                                  /\ handlers[j].op = "delete"
                                  /\ handlers[j].pc = "delete"}]

ConcNext ==
  \/ ConcConflictQuery
  \/ ConcInsert
  \/ ConcBatchInsert
  \/ ConcFetch
  \/ ConcDelete

ConcSpec == Init /\ [][ConcNext]_vars

\* C26: every row with a parent_event_id names a row that is in the table and
\* has the same user_id, whatever the order in which the store calls of
\* create, delete and series-delete requests run
C26_NoOrphans ==
  \A r \in calendar_events :
    r.parent_event_id # NULL =>
      \E p \in calendar_events : /\ p.id = r.parent_event_id
                                 /\ p.user_id = r.user_id

\* a create lost its base event to a delete between its two inserts, and
\* instances of another series are still in the table
C26_Witness ==
  /\ \E i \in Slots : /\ handlers[i].op = "create"
                      /\ handlers[i].pc = "done"
                      /\ handlers[i].recurrence # "none"
                      /\ handlers[i].id \notin Ids(calendar_events)
  /\ \E j \in Slots : /\ handlers[j].op = "delete"
                      /\ handlers[j].status = 200
  /\ \E r \in calendar_events : r.parent_event_id # NULL

\* the rows a finished create request accounts for: its base event and the
\* rows naming it as parent
SeriesOf(h) ==
  {r \in calendar_events : r.id = h.id \/ r.parent_event_id = h.id}

\* C27: when create requests for a series of one owner have run side by side
\* and nothing else has, each base event is in the table, the instances a
\* request inserted name the base event of that request, and the table holds
\* the base event and the N instances of each request and nothing more
C27_ConcurrentCreates ==
  (/\ Len(handlers) >= 2
   /\ \A i \in Slots : /\ handlers[i].op = "create"
                       /\ handlers[i].pc = "done"
                       /\ handlers[i].recurrence # "none"
   /\ \A i, j \in Slots : handlers[i].user = handlers[j].user)
  => /\ \A i \in Slots :
          /\ \E b \in calendar_events : /\ b.id = handlers[i].id
                                        /\ b.user_id = handlers[i].user
                                        /\ b.parent_event_id = NULL
          /\ \A r \in calendar_events :
               r.id \in handlers[i].recurring
                 => r.parent_event_id = handlers[i].id
          /\ handlers[i].recurring \subseteq Ids(calendar_events)
          /\ Cardinality(handlers[i].recurring)
               = maxOccurrences(handlers[i].recurrence) - 1
          /\ Cardinality(SeriesOf(handlers[i]))
               = maxOccurrences(handlers[i].recurrence)
     /\ calendar_events = UNION {SeriesOf(handlers[i]) : i \in Slots}

\* two creates of one owner are answered, and the second inserted its base
\* event before the first inserted its instances
C27_Witness ==
  /\ Len(handlers) = 2
  /\ \A i \in Slots : /\ handlers[i].op = "create"
                      /\ handlers[i].pc = "done"
                      /\ handlers[i].status = 201
  /\ handlers[1].user = handlers[2].user
  /\ \E i, j \in Slots :
       /\ handlers[j].id = handlers[i].id + 1
       /\ handlers[i].recurring # {}
       /\ \A k \in handlers[i].recurring : k > handlers[j].id

\* two delete requests for one event by one caller, each past its existence
\* check when the other ran its delete statement, and no third delete request
Overlapped(i, j) ==
  /\ i # j
  /\ handlers[i].op = "delete" /\ handlers[j].op = "delete"
  /\ handlers[i].id = handlers[j].id
  /\ handlers[i].user = handlers[j].user
  /\ handlers[i].pc = "done" /\ handlers[j].pc = "done"
  /\ j \in handlers[i].during
  /\ \A k \in Slots \ {i, j} : handlers[k].op # "delete"

\* C28: a delete request answered 200 reports deleted_count >= 1, and of two
\* delete requests for the same event that ran side by side one is answered
\* 200 and the other 404
C28_OneSuccessOneNotFound ==
  /\ \A i \in Slots :
       (handlers[i].op = "delete" /\ handlers[i].status = 200)
         => handlers[i].count >= 1
  /\ \A i, j \in Slots :
       Overlapped(i, j)
         => {handlers[i].status, handlers[j].status} = {200, 404}

\* the rows the statements of the successful operations returned
RECURSIVE SumLength(_)
SumLength(results) ==
  IF results = <<>> THEN 0
  ELSE (IF results[1].success THEN results[1].length ELSE 0)
       + SumLength(Tail(results))

\* C29: total_events_processed of a batch response is the number of rows the
\* successful operations created, updated or deleted; an operation that
\* touched no row adds nothing
C29_ProcessedIsRowsAffected ==
  (resp.op = "batch" /\ resp.status = 200)
    => /\ resp.count = SumLength(resp.results)
       /\ \A k \in 1..Len(resp.results) :
            (resp.results[k].success /\ resp.results[k].length = 0)
              => resp.results[k].processed = 0

\* C30: a batch request whose operations are all reported as failed
\* (success false, processed 0) leaves the table as it was
C30_FailedOperationChangesNothing ==
  [][(/\ nreq' = nreq + 1
      /\ resp'.op = "batch"
      /\ resp'.status = 200
      /\ resp'.results # <<>>
      /\ \A k \in 1..Len(resp'.results) :
           /\ ~resp'.results[k].success
           /\ resp'.results[k].processed = 0)
       => calendar_events' = calendar_events]_vars

====
